---- MODULE Spec2Model ----
(***************************************************************************)
(* Quota-aware admission controller of the bot's YouTube client:           *)
(* app/services/quota_manager.py (QuotaManager) on top of the Redis JSON    *)
(* cache of app/infrastructure/cache.py.                                    *)
(*                                                                         *)
(* Time is wall-clock time in milliseconds since the epoch (UTC).  The      *)
(* Redis store is shared by all processes; _cache_enabled, _request_times   *)
(* and _last_request_time are per-process memory.                           *)
(***************************************************************************)
EXTENDS Integers, FiniteSets, TLC

\* ------------------------------------------------------------------ bounds
\* Resolution of the model clock: clock units per second.
MsPerSecond == 1000
\* Number of clock advances in one behaviour.
MaxTicks == 3
\* Number of record_request invocations (Record actions) in one behaviour.
MaxRecords == 2
\* Number of OS processes sharing the store.
NumProcs == 2
\* Number of admission checks started in one command-by-command behaviour.
MaxChecks == 1
\* Number of clock advances in one command-by-command behaviour.
MaxStepTicks == 1
\* Number of 59-minute periods a caller keeps recording without a pause.
MaxKeepAlive == 24
\* Number of record_request invocations in one burst behaviour.
MaxBurstRecords == 6
\* Number of clock advances in one burst behaviour.
MaxBurstTicks == 3
\* Number of process restarts in one behaviour.
MaxRestarts == 1
\* Number of times another writer puts a malformed value under a quota key.
MaxCorrupts == 2
\* Number of client calls (youtube.py functions) in one behaviour.
MaxCalls == 6

\* ------------------------------------------------------- program constants
\* QuotaType values (CHANNEL_INFO is an alias of VIDEO_STATS; CHANNEL_VIDEOS
\* and VIDEO_SEARCH are aliases of CHANNEL_SEARCH: a Python Enum has one member
\* per value).
VIDEO_STATS == 1
CHANNEL_SEARCH == 100
QuotaType == {[name |-> "VIDEO_STATS", value |-> VIDEO_STATS],
              [name |-> "CHANNEL_SEARCH", value |-> CHANNEL_SEARCH]}
\* The quota_cost arguments callers pass (quota_type.value).
Costs == {q.value : q \in QuotaType}

DAILY_QUOTA_LIMIT == 10000
HOURLY_QUOTA_LIMIT == 1000
REQUESTS_PER_MINUTE == 300
REQUESTS_PER_SECOND == 5
DAILY_WARNING_THRESHOLD == 8000
HOURLY_WARNING_THRESHOLD == 800

\* TTLs (seconds) passed to _save_usage, and the burst tracker's horizons.
DAILY_TTL == 86400
HOURLY_TTL == 3600
MINUTE_HORIZON == 60
SECOND_HORIZON == 1

Timeframes == {"daily", "hourly"}
Procs == 1 .. NumProcs

\* ------------------------------------------------------------------- time
Seconds(s) == s * MsPerSecond
HOUR == Seconds(3600)
DAY == Seconds(86400)

\* datetime.date() and datetime.hour of a UTC instant.
DateOf(t) == t \div DAY
HourOf(t) == (t \div HOUR) % 24

\* The epoch bucket of an instant: floor(t/86400) resp. floor(t/3600).
EpochBucket(tf, t) == IF tf = "daily" THEN t \div DAY ELSE t \div HOUR

\* The instant the processes are constructed: 22:45:00 UTC on epoch day 1.
StartTime == DAY + 22 * HOUR + Seconds(45 * 60)

\* Clock advances of the ledger specification: 30 min, 1 day.
Deltas == {Seconds(1800), DAY}

VARIABLES
    now,                 \* wall clock (time.time(), datetime.now(timezone.utc))
    store,               \* Redis: key (timeframe) -> value with expiry, or no key
    redisUp,             \* whether Redis answers commands
    _cache_enabled,      \* cache.py module global, per process
    _request_times,      \* QuotaManager._request_times, per process (multiset)
    _last_request_time,  \* QuotaManager._last_request_time, per process
    pc,                  \* per process: position inside a handler
    loc,                 \* per process: the handler's local variables
    actual,              \* history: usage truly recorded per epoch bucket
    hist,                \* history: counters of what happened so far
    last                 \* history: what the last handler observed and returned

vars == <<now, store, redisUp, _cache_enabled, _request_times, _last_request_time,
          pc, loc, actual, hist, last>>

\* ------------------------------------------------------------ QuotaUsage
\* QuotaUsage(): all counters zero, last_reset_time = now.
QuotaUsage == [total_quota_used |-> 0, requests_made |-> 0, last_reset_time |-> now,
               daily_quota_used |-> 0, hourly_quota_used |-> 0, errors_count |-> 0,
               rate_limited_count |-> 0]

NoKey == [kind |-> "none"]

\* -------------------------------------------------------------- cache.py
\* cache_get_json: None when the cache is disabled in this process, on any
\* Redis error, and when the key is absent or expired; else the decoded dict.
\* None is modelled as NoKey.
\* A stored value of kind "raw" is one that no _save_usage wrote: text that
\* is not JSON, or a JSON object that is not a full usage dict.  Text that is
\* not JSON makes json.loads raise JSONDecodeError: None is returned (and the
\* key deleted, see cache_get_json_delete); a JSON object is returned as it is.
MalformedForms == {"invalid_json", "missing_fields", "unknown_fields",
                   "bad_last_reset_time"}
cache_get_json(st, p, key) ==
    IF ~_cache_enabled[p] THEN NoKey
    ELSE IF ~redisUp THEN NoKey
    ELSE IF st[key].kind = "none" \/ now >= st[key].exp THEN NoKey
    ELSE IF st[key].kind = "raw"
    THEN (IF st[key].form = "invalid_json" THEN NoKey
          ELSE [kind |-> "raw", form |-> st[key].form])
    ELSE [kind |-> "json", val |-> st[key].val]

\* The store after cache_get_json: the JSONDecodeError branch (lines 112-122)
\* deletes the key.
cache_get_json_delete(st, p, key) ==
    IF /\ _cache_enabled[p] /\ redisUp
       /\ st[key].kind = "raw" /\ now < st[key].exp /\ st[key].form = "invalid_json"
    THEN [st EXCEPT ![key] = NoKey]
    ELSE st

\* cache_set_json: SETEX key ttl json; nothing is written when the cache is
\* disabled or Redis fails (the False result is ignored by _save_usage).
cache_set_json(st, p, key, value, ttl_seconds) ==
    IF ~_cache_enabled[p] THEN st
    ELSE IF ~redisUp THEN st
    ELSE [st EXCEPT ![key] = [kind |-> "json", val |-> value,
                              exp |-> now + Seconds(ttl_seconds)]]

\* ------------------------------------------------------ quota_manager.py
\* last_reset_time travels as isoformat()/fromisoformat(), which round-trips
\* an aware datetime exactly at the clock's resolution.
\* A dict with an unknown key makes QuotaUsage(**cached) raise TypeError and
\* a last_reset_time that is not an ISO date makes datetime.fromisoformat
\* raise ValueError (lines 69-72); neither is caught.
_get_current_usage_raises(st, p, timeframe) ==
    LET cached == cache_get_json(st, p, timeframe)
    IN  cached.kind = "raw" /\ cached.form \in {"unknown_fields", "bad_last_reset_time"}

\* The usage returned when nothing is raised.  A dict with missing keys
\* (the counters and last_reset_time absent) takes the dataclass defaults.
_get_current_usage(st, p, timeframe) ==
    LET cached == cache_get_json(st, p, timeframe)
    IN  IF cached.kind = "json" THEN cached.val ELSE QuotaUsage

_save_usage(st, p, usage, timeframe, ttl) ==
    cache_set_json(st, p, timeframe, usage, ttl)

\* _should_reset_timeframe with the daily comparison written >= instead of >.
_should_reset_timeframe_ge(usage, timeframe) ==
    IF timeframe = "daily" THEN DateOf(now) >= DateOf(usage.last_reset_time)
    ELSE IF timeframe = "hourly" THEN HourOf(now) # HourOf(usage.last_reset_time)
    ELSE FALSE

\* _should_reset_timeframe with the daily comparison turned around.
_should_reset_timeframe_lt(usage, timeframe) ==
    IF timeframe = "daily" THEN DateOf(now) < DateOf(usage.last_reset_time)
    ELSE IF timeframe = "hourly" THEN HourOf(now) # HourOf(usage.last_reset_time)
    ELSE FALSE

\* _should_reset_timeframe with the hourly comparison made on half hours.
_should_reset_timeframe_half_hour(usage, timeframe) ==
    IF timeframe = "daily" THEN DateOf(now) > DateOf(usage.last_reset_time)
    ELSE IF timeframe = "hourly"
    THEN now \div (HOUR \div 2) # usage.last_reset_time \div (HOUR \div 2)
    ELSE FALSE

_should_reset_timeframe(usage, timeframe) ==
    IF timeframe = "daily" THEN DateOf(now) > DateOf(usage.last_reset_time)
    ELSE IF timeframe = "hourly" THEN HourOf(now) # HourOf(usage.last_reset_time)
    ELSE FALSE

ResetTtl(timeframe) == IF timeframe = "daily" THEN DAILY_TTL ELSE HOURLY_TTL

\* Returns the usage, the store after the call, whether a reset was done and
\* whether the read raised.
_reset_timeframe_if_needed(st, p, timeframe) ==
    LET usage == _get_current_usage(st, p, timeframe)
        read == cache_get_json_delete(st, p, timeframe)
    IN  IF _get_current_usage_raises(st, p, timeframe)
        THEN [usage |-> NoKey, store |-> st, reset |-> FALSE, raised |-> TRUE]
        ELSE IF _should_reset_timeframe(usage, timeframe)
        THEN [usage |-> QuotaUsage,
              store |-> _save_usage(read, p, QuotaUsage, timeframe, ResetTtl(timeframe)),
              reset |-> TRUE, raised |-> FALSE]
        ELSE [usage |-> usage, store |-> read, reset |-> FALSE, raised |-> FALSE]

\* ----------------------------------------------- burst tracker (multiset)
\* _request_times is a list that the code only appends to, filters and
\* measures with len(): a multiset timestamp -> multiplicity.
EmptyTimes == [t \in {} |-> 0]
Within(times, horizon) ==
    LET keep == {t \in DOMAIN times : now - t < Seconds(horizon)}
    IN  [t \in keep |-> times[t]]
RECURSIVE Count(_)
Count(times) ==
    IF DOMAIN times = {} THEN 0
    ELSE LET t == CHOOSE u \in DOMAIN times : TRUE
         IN  times[t] + Count([u \in DOMAIN times \ {t} |-> times[u]])
Append_(times, t, k) ==
    IF t \in DOMAIN times THEN [times EXCEPT ![t] = @ + k]
    ELSE [u \in DOMAIN times \cup {t} |-> IF u = t THEN k ELSE times[u]]

\* --------------------------------------------- check_quota_availability
\* The daily test on the usage alone, the cost of the call left out.
daily_limit_exceeded_without_cost(usage, quota_cost) ==
    usage.daily_quota_used > DAILY_QUOTA_LIMIT
daily_limit_exceeded(usage, quota_cost) ==
    usage.daily_quota_used + quota_cost > DAILY_QUOTA_LIMIT
hourly_limit_exceeded(usage, quota_cost) ==
    usage.hourly_quota_used + quota_cost > HOURLY_QUOTA_LIMIT
minute_limit_reached(times) == Count(times) >= REQUESTS_PER_MINUTE
\* The burst test with a strict comparison: one more request slips through.
burst_limit_reached_gt(recent_requests) == Count(recent_requests) > REQUESTS_PER_SECOND
\* The burst test against the per-minute limit.
burst_limit_reached_minute(recent_requests) ==
    Count(recent_requests) >= REQUESTS_PER_MINUTE
burst_limit_reached(recent_requests) == Count(recent_requests) >= REQUESTS_PER_SECOND

\* check_quota_availability with the hourly comparison made before the daily
\* one.
check_quota_availability_hourly_first(p, quota_cost) ==
    LET d == _reset_timeframe_if_needed(store, p, "daily")
        h == _reset_timeframe_if_needed(d.store, p, "hourly")
        pruned == Within(_request_times[p], MINUTE_HORIZON)
        recent_requests == Within(pruned, SECOND_HORIZON)
        seen == [store |-> h.store,
                 reset |-> [daily |-> d.reset, hourly |-> h.reset],
                 usage |-> [daily |-> d.usage, hourly |-> h.usage]]
    IN  IF d.raised
        THEN [store |-> d.store, reset |-> [daily |-> FALSE, hourly |-> FALSE],
              usage |-> [daily |-> NoKey, hourly |-> NoKey],
              allowed |-> FALSE, reason |-> "raised", times |-> _request_times[p]]
        ELSE IF h.raised
        THEN [store |-> h.store, reset |-> [daily |-> d.reset, hourly |-> FALSE],
              usage |-> [daily |-> d.usage, hourly |-> NoKey],
              allowed |-> FALSE, reason |-> "raised", times |-> _request_times[p]]
        ELSE IF hourly_limit_exceeded(h.usage, quota_cost)
        THEN seen @@ [allowed |-> FALSE, reason |-> "hourly", times |-> _request_times[p]]
        ELSE IF daily_limit_exceeded(d.usage, quota_cost)
        THEN seen @@ [allowed |-> FALSE, reason |-> "daily", times |-> _request_times[p]]
        ELSE IF minute_limit_reached(pruned)
        THEN seen @@ [allowed |-> FALSE, reason |-> "minute", times |-> pruned]
        ELSE IF burst_limit_reached(recent_requests)
        THEN seen @@ [allowed |-> FALSE, reason |-> "burst", times |-> pruned]
        ELSE seen @@ [allowed |-> TRUE, reason |-> "OK", times |-> pruned]

\* The whole handler as a function of the current state: the decision, the
\* store and the burst tracker it leaves behind, and what it read.  The
\* tracker is pruned only once the daily and hourly checks have passed.  When
\* a read raises, the exception leaves the handler: reason "raised".
check_quota_availability(p, quota_cost) ==
    LET d == _reset_timeframe_if_needed(store, p, "daily")
        h == _reset_timeframe_if_needed(d.store, p, "hourly")
        pruned == Within(_request_times[p], MINUTE_HORIZON)
        recent_requests == Within(pruned, SECOND_HORIZON)
        seen == [store |-> h.store,
                 reset |-> [daily |-> d.reset, hourly |-> h.reset],
                 usage |-> [daily |-> d.usage, hourly |-> h.usage]]
    IN  IF d.raised
        THEN [store |-> d.store, reset |-> [daily |-> FALSE, hourly |-> FALSE],
              usage |-> [daily |-> NoKey, hourly |-> NoKey],
              allowed |-> FALSE, reason |-> "raised", times |-> _request_times[p]]
        ELSE IF h.raised
        THEN [store |-> h.store, reset |-> [daily |-> d.reset, hourly |-> FALSE],
              usage |-> [daily |-> d.usage, hourly |-> NoKey],
              allowed |-> FALSE, reason |-> "raised", times |-> _request_times[p]]
        ELSE IF daily_limit_exceeded(d.usage, quota_cost)
        THEN seen @@ [allowed |-> FALSE, reason |-> "daily", times |-> _request_times[p]]
        ELSE IF hourly_limit_exceeded(h.usage, quota_cost)
        THEN seen @@ [allowed |-> FALSE, reason |-> "hourly", times |-> _request_times[p]]
        ELSE IF minute_limit_reached(pruned)
        THEN seen @@ [allowed |-> FALSE, reason |-> "minute", times |-> pruned]
        ELSE IF burst_limit_reached(recent_requests)
        THEN seen @@ [allowed |-> FALSE, reason |-> "burst", times |-> pruned]
        ELSE seen @@ [allowed |-> TRUE, reason |-> "OK", times |-> pruned]

\* ------------------------------------------------------- record_request
\* The increments with a failed call counted as an error only.
add_usage_failed_not_counted(usage, timeframe, quota_cost, success) ==
    [usage EXCEPT
        !.total_quota_used = @ + quota_cost,
        !.daily_quota_used = IF timeframe = "daily" THEN @ + quota_cost ELSE @,
        !.hourly_quota_used = IF timeframe = "hourly" THEN @ + quota_cost ELSE @,
        !.requests_made = IF success THEN @ + 1 ELSE @,
        !.errors_count = IF success THEN @ ELSE @ + 1]

\* The increments of lines 187-192 (daily) and 198-203 (hourly).
add_usage(usage, timeframe, quota_cost, success) ==
    [usage EXCEPT
        !.total_quota_used = @ + quota_cost,
        !.daily_quota_used = IF timeframe = "daily" THEN @ + quota_cost ELSE @,
        !.hourly_quota_used = IF timeframe = "hourly" THEN @ + quota_cost ELSE @,
        !.requests_made = @ + 1,
        !.errors_count = IF success THEN @ ELSE @ + 1]

\* Read, increment and write back one timeframe's record.
record_usage(st, p, timeframe, quota_cost, success) ==
    LET usage == add_usage(_get_current_usage(st, p, timeframe), timeframe,
                           quota_cost, success)
    IN  IF _get_current_usage_raises(st, p, timeframe)
        THEN [usage |-> NoKey, store |-> st, raised |-> TRUE]
        ELSE [usage |-> usage,
              store |-> _save_usage(cache_get_json_delete(st, p, timeframe), p, usage,
                                    timeframe, ResetTtl(timeframe)),
              raised |-> FALSE]

\* The ledger part of record_request: daily, then hourly.
record_request(st, p, quota_cost, success) ==
    LET d == record_usage(st, p, "daily", quota_cost, success)
        h == record_usage(d.store, p, "hourly", quota_cost, success)
    IN  IF d.raised
        THEN [store |-> d.store, usage |-> [daily |-> NoKey, hourly |-> NoKey],
              raised |-> TRUE]
        ELSE [store |-> h.store, usage |-> [daily |-> d.usage, hourly |-> h.usage],
              raised |-> h.raised]

\* The warning test with the hard limit itself inside the band.
_check_warning_thresholds_le(daily_usage, hourly_usage) ==
    [daily |-> /\ daily_usage.daily_quota_used >= DAILY_WARNING_THRESHOLD
               /\ daily_usage.daily_quota_used <= DAILY_QUOTA_LIMIT,
     hourly |-> /\ hourly_usage.hourly_quota_used >= HOURLY_WARNING_THRESHOLD
                /\ hourly_usage.hourly_quota_used <= HOURLY_QUOTA_LIMIT]

\* _check_warning_thresholds: which warnings are logged.
_check_warning_thresholds(daily_usage, hourly_usage) ==
    [daily |-> /\ daily_usage.daily_quota_used >= DAILY_WARNING_THRESHOLD
               /\ daily_usage.daily_quota_used < DAILY_QUOTA_LIMIT,
     hourly |-> /\ hourly_usage.hourly_quota_used >= HOURLY_WARNING_THRESHOLD
                /\ hourly_usage.hourly_quota_used < HOURLY_QUOTA_LIMIT]

\* ------------------------------------------------------ get_quota_status
\* The dictionary get_quota_status returns (lines 249-272) for the two usage
\* records it holds and the pruned tracker; limits and percentages left out.
get_quota_status(daily_usage, hourly_usage, times) ==
    [daily |-> [used |-> daily_usage.daily_quota_used,
                remaining |-> DAILY_QUOTA_LIMIT - daily_usage.daily_quota_used,
                requests_made |-> daily_usage.requests_made,
                errors |-> daily_usage.errors_count],
     hourly |-> [used |-> hourly_usage.hourly_quota_used,
                 remaining |-> HOURLY_QUOTA_LIMIT - hourly_usage.hourly_quota_used,
                 requests_made |-> hourly_usage.requests_made,
                 errors |-> hourly_usage.errors_count],
     rate_limiting |-> [requests_last_minute |-> Count(times),
                        requests_last_second |-> Count(Within(times, SECOND_HORIZON))]]

\* ---------------------------------------------------------------- history
\* Usage truly recorded in the epoch bucket of the latest record_request.
ActualAdd(a, timeframe, quota_cost, success) ==
    LET b == EpochBucket(timeframe, now)
        base == IF a.bucket = b THEN a ELSE [bucket |-> b, used |-> 0, reqs |-> 0, errs |-> 0]
    IN  [bucket |-> b, used |-> base.used + quota_cost, reqs |-> base.reqs + 1,
         errs |-> base.errs + (IF success THEN 0 ELSE 1)]
\* Cost recorded so far in the epoch bucket that contains now.
ActualUsed(timeframe) ==
    IF actual[timeframe].bucket = EpochBucket(timeframe, now)
    THEN actual[timeframe].used ELSE 0
ActualReqs(timeframe) ==
    IF actual[timeframe].bucket = EpochBucket(timeframe, now)
    THEN actual[timeframe].reqs ELSE 0

\* hist.stamps[p] holds the timestamp of every record_request of process p.

\* Cost written back since the latest rollover reset of a timeframe (-1 before
\* the first one).
SinceAdd(since, timeframes, quota_cost) ==
    [tf \in Timeframes |-> IF tf \in timeframes /\ since[tf] >= 0
                           THEN since[tf] + quota_cost ELSE since[tf]]
SinceReset(since, reset) ==
    [tf \in Timeframes |-> IF reset[tf] THEN 0 ELSE since[tf]]

NoFlags == [daily |-> FALSE, hourly |-> FALSE]
NoLast == [op |-> "none", p |-> 0, cost |-> 0, allowed |-> FALSE, reason |-> "",
           reset |-> NoFlags, usage |-> [daily |-> NoKey, hourly |-> NoKey],
           warn |-> NoFlags, success |-> FALSE, report |-> NoKey]
\* hist.call: the client function last entered, whether it asked
\* wait_if_needed and got True, how many HTTP requests it has sent and how
\* many record_request calls it has made.
NoCall == [path |-> "none", asked |-> FALSE, allowed |-> FALSE, sent |-> 0,
           recorded |-> 0, outcome |-> "none"]
NoLoc == [op |-> "none", cost |-> 0, success |-> FALSE, usage |-> NoKey,
          daily |-> NoKey, reset |-> FALSE]

\* The calls that get recorded: a failed VIDEO_STATS call (the client's call
\* sites in youtube.py) and a successful CHANNEL_SEARCH call (success defaults
\* to True).
RecordInputs ==
    {[quota_type |-> q, success |-> (q.value = CHANNEL_SEARCH)] : q \in QuotaType}

\* The callers of the sequential specification.
SeqProcs == {1}

\* What earlier runs left in the store when the processes start at StartTime:
\* n CHANNEL_SEARCH calls recorded since `since`, the last one at `at`.
Stored(timeframe, n, since, at) ==
    [kind |-> "json",
     val |-> [total_quota_used |-> n * CHANNEL_SEARCH, requests_made |-> n,
              last_reset_time |-> since,
              daily_quota_used |-> IF timeframe = "daily" THEN n * CHANNEL_SEARCH ELSE 0,
              hourly_quota_used |-> IF timeframe = "hourly" THEN n * CHANNEL_SEARCH ELSE 0,
              errors_count |-> 0, rate_limited_count |-> 0],
     exp |-> at + Seconds(ResetTtl(timeframe))]
Recorded(timeframe, n) ==
    [bucket |-> EpochBucket(timeframe, StartTime), used |-> n * CHANNEL_SEARCH,
     reqs |-> n, errs |-> 0]
\* (1) nothing; (2) 99 calls today from 09:00 to 21:00, none in this hour;
\* (3) 99 calls today from 09:00, nine of them in this hour from 22:10 to 22:40.
Priors ==
    { [store |-> [daily |-> NoKey, hourly |-> NoKey],
       actual |-> [daily |-> Recorded("daily", 0), hourly |-> Recorded("hourly", 0)]],
      [store |-> [daily |-> Stored("daily", 99, DAY + 9 * HOUR, DAY + 21 * HOUR),
                  hourly |-> NoKey],
       actual |-> [daily |-> Recorded("daily", 99), hourly |-> Recorded("hourly", 0)]],
      [store |-> [daily |-> Stored("daily", 99, DAY + 9 * HOUR, StartTime - Seconds(300)),
                  hourly |-> Stored("hourly", 9, StartTime - Seconds(2100),
                                    StartTime - Seconds(300))],
       actual |-> [daily |-> Recorded("daily", 99), hourly |-> Recorded("hourly", 9)]] }

\* The state right after process 1 has recorded, at StartTime and with no
\* await in between (coroutines of one asyncio.gather), k VIDEO_STATS calls
\* and j CHANNEL_SEARCH calls, on top of e CHANNEL_SEARCH calls recorded
\* from 09:00 to 21:00 today.
LayerPrior(e, k, j) ==
    LET hourly_used == k * VIDEO_STATS + j * CHANNEL_SEARCH
        daily_used == e * CHANNEL_SEARCH + hourly_used
    IN  [store |->
           [daily |-> [kind |-> "json",
                       val |-> [total_quota_used |-> daily_used,
                                requests_made |-> e + k + j,
                                last_reset_time |-> IF e = 0 THEN StartTime
                                                    ELSE DAY + 9 * HOUR,
                                daily_quota_used |-> daily_used,
                                hourly_quota_used |-> 0,
                                errors_count |-> 0, rate_limited_count |-> 0],
                       exp |-> StartTime + Seconds(DAILY_TTL)],
            hourly |-> [kind |-> "json",
                        val |-> [total_quota_used |-> hourly_used,
                                 requests_made |-> k + j,
                                 last_reset_time |-> StartTime,
                                 daily_quota_used |-> 0,
                                 hourly_quota_used |-> hourly_used,
                                 errors_count |-> 0, rate_limited_count |-> 0],
                        exp |-> StartTime + Seconds(HOURLY_TTL)]],
         actual |-> [daily |-> [bucket |-> EpochBucket("daily", StartTime),
                                used |-> daily_used, reqs |-> e + k + j, errs |-> 0],
                     hourly |-> [bucket |-> EpochBucket("hourly", StartTime),
                                 used |-> hourly_used, reqs |-> k + j, errs |-> 0]],
         times |-> [t \in {StartTime} |-> k + j]]

\* One call; a burst of five; three hundred calls in one instant; the hourly
\* budget used up; the daily and the hourly budget used up; the daily budget
\* nearly used up.
LayerPriors ==
    { LayerPrior(0, 1, 0), LayerPrior(0, REQUESTS_PER_SECOND, 0),
      LayerPrior(0, REQUESTS_PER_MINUTE, 0), LayerPrior(0, 0, 10),
      LayerPrior(90, 0, 10), LayerPrior(99, 4, 0) }

\* ------------------------------------------------------------------- Init
Init ==
    /\ now = StartTime
    /\ \E prior \in Priors : store = prior.store /\ actual = prior.actual
    /\ redisUp = TRUE
    /\ _cache_enabled = [p \in Procs |-> TRUE]
    /\ _request_times = [p \in Procs |-> EmptyTimes]
    /\ _last_request_time = [p \in Procs |-> 0]
    /\ pc = [p \in Procs |-> "idle"]
    /\ loc = [p \in Procs |-> NoLoc]
    /\ hist = [ticks |-> 0, records |-> 0, checks |-> 0, everDown |-> FALSE,
               since |-> [tf \in Timeframes |-> -1],
               stamps |-> [p \in Procs |-> EmptyTimes], restarts |-> 0,
               calls |-> 0, call |-> NoCall, corrupts |-> 0]
    /\ last = NoLast

\* Init after one of the LayerPriors.
InitLayers ==
    /\ now = StartTime
    /\ \E prior \in LayerPriors :
          /\ store = prior.store
          /\ actual = prior.actual
          /\ _request_times = [p \in Procs |-> IF p = 1 THEN prior.times ELSE EmptyTimes]
          /\ hist = [ticks |-> 0, records |-> 0, checks |-> 0, everDown |-> FALSE,
                     since |-> [tf \in Timeframes |-> -1],
                     stamps |-> [p \in Procs |-> IF p = 1 THEN prior.times ELSE EmptyTimes],
                     restarts |-> 0, calls |-> 0, call |-> NoCall, corrupts |-> 0]
    /\ redisUp = TRUE
    /\ _cache_enabled = [p \in Procs |-> TRUE]
    /\ _last_request_time = [p \in Procs |-> IF p = 1 THEN StartTime ELSE 0]
    /\ pc = [p \in Procs |-> "idle"]
    /\ loc = [p \in Procs |-> NoLoc]
    /\ last = NoLast

\* ---------------------------------------------------------------- actions
\* await quota_manager.check_quota_availability(quota_cost)
Check(p, quota_cost) ==
    LET r == check_quota_availability(p, quota_cost)
    IN  /\ pc[p] = "idle"
        /\ store' = r.store
        /\ _request_times' = [_request_times EXCEPT ![p] = r.times]
        /\ last' = [NoLast EXCEPT !.op = "check", !.p = p, !.cost = quota_cost,
                                  !.allowed = r.allowed, !.reason = r.reason,
                                  !.reset = r.reset, !.usage = r.usage]
        /\ hist' = [hist EXCEPT !.since = SinceReset(@, r.reset)]
        /\ UNCHANGED <<now, redisUp, _cache_enabled, _last_request_time, pc, loc,
                       actual>>

\* await quota_manager.record_request(quota_type, success)
Record(p, quota_type, success) ==
    LET r == record_request(store, p, quota_type.value, success)
    IN  /\ pc[p] = "idle"
        /\ _request_times' = [_request_times EXCEPT ![p] = Append_(@, now, 1)]
        /\ _last_request_time' = [_last_request_time EXCEPT ![p] = now]
        /\ store' = r.store
        /\ actual' = [tf \in Timeframes |-> ActualAdd(actual[tf], tf, quota_type.value, success)]
        /\ hist' = [hist EXCEPT !.records = @ + 1,
                                !.since = SinceAdd(@, Timeframes, quota_type.value),
                                !.stamps[p] = Append_(@, now, 1)]
        /\ last' = IF r.raised
                   THEN [NoLast EXCEPT !.op = "record", !.p = p, !.cost = quota_type.value,
                                       !.success = success, !.usage = r.usage,
                                       !.reason = "raised"]
                   ELSE [NoLast EXCEPT !.op = "record", !.p = p, !.cost = quota_type.value,
                                       !.success = success, !.usage = r.usage,
                                       !.warn = _check_warning_thresholds(r.usage.daily,
                                                                          r.usage.hourly)]
        /\ UNCHANGED <<now, redisUp, _cache_enabled, pc, loc>>

\* await quota_manager.get_quota_status()
Status(p) ==
    LET d == _reset_timeframe_if_needed(store, p, "daily")
        h == _reset_timeframe_if_needed(d.store, p, "hourly")
    IN  /\ pc[p] = "idle"
        /\ store' = h.store
        /\ _request_times' = [_request_times EXCEPT ![p] = Within(@, MINUTE_HORIZON)]
        /\ last' = [NoLast EXCEPT !.op = "status", !.p = p,
                                  !.reset = [daily |-> d.reset, hourly |-> h.reset],
                                  !.usage = [daily |-> d.usage, hourly |-> h.usage],
                                  !.report = get_quota_status(d.usage, h.usage,
                                                 Within(_request_times[p], MINUTE_HORIZON))]
        /\ hist' = [hist EXCEPT !.since = SinceReset(@, [daily |-> d.reset,
                                                         hourly |-> h.reset])]
        /\ UNCHANGED <<now, redisUp, _cache_enabled, _last_request_time, pc, loc,
                       actual>>

\* check_redis_health(): a failed ping disables the cache of this process.
check_redis_health(p) ==
    /\ pc[p] = "idle"
    /\ _cache_enabled' = [_cache_enabled EXCEPT ![p] = @ /\ redisUp]
    /\ last' = [NoLast EXCEPT !.op = "health", !.p = p,
                              !.allowed = _cache_enabled[p] /\ redisUp]
    /\ UNCHANGED <<now, store, redisUp, _request_times, _last_request_time, pc, loc,
                   actual, hist>>

\* The clock advances.
Tick(d) ==
    /\ now' = now + d
    /\ hist' = [hist EXCEPT !.ticks = @ + 1]
    /\ last' = NoLast
    /\ UNCHANGED <<store, redisUp, _cache_enabled, _request_times, _last_request_time,
                   pc, loc, actual>>

\* Redis becomes unreachable; its data is kept.
Outage ==
    /\ redisUp
    /\ redisUp' = FALSE
    /\ hist' = [hist EXCEPT !.everDown = TRUE]
    /\ last' = NoLast
    /\ UNCHANGED <<now, store, _cache_enabled, _request_times, _last_request_time,
                   pc, loc, actual>>

\* Redis answers again.
Restore ==
    /\ ~redisUp
    /\ redisUp' = TRUE
    /\ last' = NoLast
    /\ UNCHANGED <<now, store, _cache_enabled, _request_times, _last_request_time,
                   pc, loc, actual, hist>>

\* The process crashes and is started again: the module globals
\* (cache._cache_enabled, the quota_manager instance with its burst tracker)
\* are rebuilt; the store keeps what it holds.
Restart(p) ==
    /\ pc[p] = "idle"
    /\ hist.restarts < MaxRestarts
    /\ _request_times' = [_request_times EXCEPT ![p] = EmptyTimes]
    /\ _last_request_time' = [_last_request_time EXCEPT ![p] = 0]
    /\ _cache_enabled' = [_cache_enabled EXCEPT ![p] = TRUE]
    /\ hist' = [hist EXCEPT !.restarts = @ + 1, !.stamps[p] = EmptyTimes]
    /\ last' = NoLast
    /\ UNCHANGED <<now, store, redisUp, pc, loc, actual>>

\* One sequential caller, whole handlers, a store that always answers.
Next ==
    \/ \E p \in SeqProcs, c \in Costs : Check(p, c)
    \/ \E p \in SeqProcs, in \in RecordInputs :
          hist.records < MaxRecords /\ Record(p, in.quota_type, in.success)
    \/ \E p \in SeqProcs : Status(p)
    \/ \E d \in Deltas : hist.ticks < MaxTicks /\ Tick(d)

Spec == Init /\ [][Next]_vars

\* The same caller with a store that may become unreachable between handlers
\* and a health probe (app/health.py, start.py) that pings it.
NextOutage ==
    \/ \E p \in SeqProcs, c \in Costs : Check(p, c)
    \/ \E p \in SeqProcs, in \in RecordInputs :
          hist.records < MaxRecords /\ Record(p, in.quota_type, in.success)
    \/ \E p \in SeqProcs : Status(p)
    \/ \E p \in SeqProcs : check_redis_health(p)
    \/ \E p \in SeqProcs : Restart(p)
    \/ (hist.ticks < MaxTicks /\ Tick(Seconds(1800)))
    \/ Outage
    \/ Restore

SpecOutage == Init /\ [][NextOutage]_vars

\* A caller that records one failed VIDEO_STATS call every 59 minutes, which keeps
\* refreshing the hourly key's TTL, until it asks for admission.
NextKeepAlive ==
    \/ /\ last.op = "none"
       /\ hist.records < MaxKeepAlive
       /\ \E p \in SeqProcs, in \in {i \in RecordInputs : i.quota_type.value = VIDEO_STATS} :
              Record(p, in.quota_type, in.success)
    \/ /\ last.op = "record"
       /\ hist.ticks < MaxKeepAlive
       /\ Tick(Seconds(3540))
    \/ \E p \in SeqProcs, c \in Costs : Check(p, c)

SpecKeepAlive == Init /\ [][NextKeepAlive]_vars

\* Clock advances of the burst specification: half a second, one minute.
BurstDeltas == {Seconds(SECOND_HORIZON) \div 2, Seconds(MINUTE_HORIZON)}

\* A caller that records failed VIDEO_STATS calls in quick succession.
NextBurst ==
    \/ \E p \in SeqProcs, c \in Costs : Check(p, c)
    \/ \E p \in SeqProcs, in \in {i \in RecordInputs : i.quota_type.value = VIDEO_STATS} :
          hist.records < MaxBurstRecords /\ Record(p, in.quota_type, in.success)
    \/ \E p \in SeqProcs : Status(p)
    \/ \E d \in BurstDeltas : hist.ticks < MaxBurstTicks /\ Tick(d)

SpecBurst == Init /\ [][NextBurst]_vars

\* Another writer of the Redis database (an older release, an operator's
\* redis-cli) puts a malformed value under a quota key.
Corrupt(key, form) ==
    /\ redisUp
    /\ hist.corrupts < MaxCorrupts
    /\ store' = [store EXCEPT ![key] = [kind |-> "raw", form |-> form,
                                        exp |-> now + Seconds(ResetTtl(key))]]
    /\ hist' = [hist EXCEPT !.corrupts = @ + 1]
    /\ last' = NoLast
    /\ UNCHANGED <<now, redisUp, _cache_enabled, _request_times, _last_request_time,
                   pc, loc, actual>>

\* One caller that starts with usage and timestamps near the four limits.
NextLayers ==
    \/ \E p \in SeqProcs, c \in Costs : Check(p, c)
    \/ \E p \in SeqProcs, in \in RecordInputs :
          hist.records < MaxRecords /\ Record(p, in.quota_type, in.success)
    \/ \E d \in BurstDeltas : hist.ticks < MaxBurstTicks /\ Tick(d)

SpecLayers == InitLayers /\ [][NextLayers]_vars

\* One caller over a store whose quota keys may hold malformed values.
NextMalformed ==
    \/ \E p \in SeqProcs, c \in Costs : Check(p, c)
    \/ \E p \in SeqProcs, in \in RecordInputs :
          hist.records < MaxRecords /\ Record(p, in.quota_type, in.success)
    \/ \E key \in Timeframes, form \in MalformedForms : Corrupt(key, form)
    \/ (hist.ticks < MaxStepTicks /\ Tick(Seconds(1800)))

SpecMalformed == Init /\ [][NextMalformed]_vars

\* ------------------------------------------------------ client (youtube.py)
\* min_delay = 0.2 seconds (get_required_delay) and time.sleep(0.2).
MinDelay == MsPerSecond \div 5

\* get_required_delay with the density tiers looked at before the spacing.
get_required_delay_density_first(p, times) ==
    LET time_since_last == now - _last_request_time[p]
        pruned == Within(times, MINUTE_HORIZON)
    IN  IF Count(pruned) * 10 > REQUESTS_PER_MINUTE * 8
        THEN [delay |-> Seconds(1), times |-> pruned]
        ELSE IF Count(pruned) * 10 > REQUESTS_PER_MINUTE * 6
        THEN [delay |-> Seconds(1) \div 2, times |-> pruned]
        ELSE IF time_since_last < MinDelay
        THEN [delay |-> MinDelay - time_since_last, times |-> times]
        ELSE [delay |-> 0, times |-> pruned]

\* get_required_delay with tiers that begin at 80% and 60% themselves.
get_required_delay_ge(p, times) ==
    LET time_since_last == now - _last_request_time[p]
        pruned == Within(times, MINUTE_HORIZON)
    IN  IF time_since_last < MinDelay
        THEN [delay |-> MinDelay - time_since_last, times |-> times]
        ELSE IF Count(pruned) * 10 >= REQUESTS_PER_MINUTE * 8
        THEN [delay |-> Seconds(1), times |-> pruned]
        ELSE IF Count(pruned) * 10 >= REQUESTS_PER_MINUTE * 6
        THEN [delay |-> Seconds(1) \div 2, times |-> pruned]
        ELSE [delay |-> 0, times |-> pruned]

\* get_required_delay on a tracker: the delay and the tracker it leaves.
get_required_delay(p, times) ==
    LET time_since_last == now - _last_request_time[p]
        pruned == Within(times, MINUTE_HORIZON)
    IN  IF time_since_last < MinDelay
        THEN [delay |-> MinDelay - time_since_last, times |-> times]
        ELSE IF Count(pruned) * 10 > REQUESTS_PER_MINUTE * 8
        THEN [delay |-> Seconds(1), times |-> pruned]
        ELSE IF Count(pruned) * 10 > REQUESTS_PER_MINUTE * 6
        THEN [delay |-> Seconds(1) \div 2, times |-> pruned]
        ELSE [delay |-> 0, times |-> pruned]

\* What the YouTube API call of fetch_video_stats_async can end in: a parsed
\* result, a status other than 200, an empty item list, an exception.
Outcomes == {"ok", "bad_status", "no_items", "exception"}

\* fetch_video_stats_async up to the admission (lines 280-314), on a miss of
\* the video cache: wait_if_needed(VIDEO_STATS) checks, and if the check
\* allows it sleeps for the required delay.
fetch_video_stats_async(p) ==
    LET r == check_quota_availability(p, VIDEO_STATS)
        g == get_required_delay(p, r.times)
    IN  /\ pc[p] = "idle"
        /\ hist.calls < MaxCalls
        /\ store' = r.store
        /\ _request_times' = [_request_times EXCEPT ![p] = IF r.allowed THEN g.times ELSE r.times]
        /\ now' = IF r.allowed THEN now + g.delay ELSE now
        /\ pc' = [pc EXCEPT ![p] = IF r.allowed THEN "fetch_request" ELSE "idle"]
        /\ last' = [NoLast EXCEPT !.op = "wait", !.p = p, !.cost = VIDEO_STATS,
                                  !.allowed = r.allowed, !.reason = r.reason,
                                  !.reset = r.reset, !.usage = r.usage]
        /\ hist' = [hist EXCEPT !.since = SinceReset(@, r.reset),
                                !.calls = @ + 1,
                                !.call = [NoCall EXCEPT !.path = "fetch_video_stats_async",
                                                        !.asked = TRUE,
                                                        !.allowed = r.allowed,
                                                        !.outcome = IF r.allowed THEN "pending"
                                                                    ELSE "denied"]]
        /\ UNCHANGED <<redisUp, _cache_enabled, _last_request_time, loc, actual>>

\* fetch_video_stats_async from the request to the return (lines 324-411):
\* the request is sent; every outcome but the parsed result ends in
\* record_request(VIDEO_STATS, success=False), the parsed result is returned
\* without a record_request.
fetch_video_stats_async_request(p, outcome) ==
    LET r == record_request(store, p, VIDEO_STATS, FALSE)
    IN  /\ pc[p] = "fetch_request"
        /\ pc' = [pc EXCEPT ![p] = "idle"]
        /\ IF outcome = "ok"
           THEN /\ hist' = [hist EXCEPT !.call.sent = @ + 1, !.call.outcome = outcome]
                /\ last' = NoLast
                /\ UNCHANGED <<store, _request_times, _last_request_time, actual>>
           ELSE /\ _request_times' = [_request_times EXCEPT ![p] = Append_(@, now, 1)]
                /\ _last_request_time' = [_last_request_time EXCEPT ![p] = now]
                /\ store' = r.store
                /\ actual' = [tf \in Timeframes |-> ActualAdd(actual[tf], tf, VIDEO_STATS, FALSE)]
                /\ hist' = [hist EXCEPT !.records = @ + 1,
                                        !.since = SinceAdd(@, Timeframes, VIDEO_STATS),
                                        !.stamps[p] = Append_(@, now, 1),
                                        !.call.sent = @ + 1,
                                        !.call.recorded = @ + 1,
                                        !.call.outcome = outcome]
                /\ last' = [NoLast EXCEPT !.op = "record", !.p = p, !.cost = VIDEO_STATS,
                                          !.usage = r.usage,
                                          !.warn = _check_warning_thresholds(r.usage.daily,
                                                                             r.usage.hourly)]
        /\ UNCHANGED <<now, redisUp, _cache_enabled, loc>>

\* The client functions that send to the API without a call to the quota
\* manager, with the time.sleep before the request and the requests sent:
\* _fetch_video_stats_sync (lines 438-481, the fallback of fetch_video_stats),
\* fetch_channel_info on a cache miss (690-724), fetch_channel_videos
\* (789-817), get_channel_id_from_username finding the handle with its first
\* search (160-191).
UnmeteredPaths ==
    {[name |-> "_fetch_video_stats_sync", sleep |-> MinDelay, requests |-> 1],
     [name |-> "fetch_channel_info", sleep |-> MinDelay, requests |-> 1],
     [name |-> "fetch_channel_videos", sleep |-> MinDelay, requests |-> 1],
     [name |-> "get_channel_id_from_username", sleep |-> 0, requests |-> 1]}

\* One of those functions runs: it sleeps and sends.
SendWithoutAdmission(p, path) ==
    /\ pc[p] = "idle"
    /\ hist.calls < MaxCalls
    /\ now' = now + path.sleep
    /\ hist' = [hist EXCEPT !.calls = @ + 1,
                            !.call = [NoCall EXCEPT !.path = path.name,
                                                    !.sent = path.requests,
                                                    !.outcome = "ok"]]
    /\ last' = NoLast
    /\ UNCHANGED <<store, redisUp, _cache_enabled, _request_times, _last_request_time,
                   pc, loc, actual>>

\* The client functions on top of the quota manager, one caller.
NextClient ==
    \/ \E p \in SeqProcs : fetch_video_stats_async(p)
    \/ \E p \in SeqProcs, outcome \in Outcomes : fetch_video_stats_async_request(p, outcome)
    \/ \E p \in SeqProcs, path \in UnmeteredPaths : SendWithoutAdmission(p, path)
    \/ (hist.ticks < MaxStepTicks /\ Tick(Seconds(1800)))

SpecClient == Init /\ [][NextClient]_vars

\* ------------------------------------------------- store-operation steps
\* The same handlers at the granularity of their Redis commands: between two
\* commands of one process, other processes and the clock may move.  What a
\* handler holds in local variables between two commands is in loc[p].

\* record_request lines 178-192: timestamps, GET daily, increments.
RecGetDaily(p, quota_type, success) ==
    /\ pc[p] = "idle"
    /\ hist.records < MaxRecords
    /\ _request_times' = [_request_times EXCEPT ![p] = Append_(@, now, 1)]
    /\ _last_request_time' = [_last_request_time EXCEPT ![p] = now]
    /\ loc' = [loc EXCEPT ![p] =
                  [NoLoc EXCEPT !.cost = quota_type.value, !.success = success,
                                !.usage = add_usage(_get_current_usage(store, p, "daily"),
                                                    "daily", quota_type.value, success)]]
    /\ pc' = [pc EXCEPT ![p] = "rec_save_daily"]
    /\ actual' = [tf \in Timeframes |-> ActualAdd(actual[tf], tf, quota_type.value, success)]
    /\ hist' = [hist EXCEPT !.records = @ + 1, !.stamps[p] = Append_(@, now, 1)]
    /\ last' = NoLast
    /\ UNCHANGED <<now, store, redisUp, _cache_enabled>>

\* line 194: SETEX daily.
RecSaveDaily(p) ==
    /\ pc[p] = "rec_save_daily"
    /\ store' = _save_usage(store, p, loc[p].usage, "daily", DAILY_TTL)
    /\ loc' = [loc EXCEPT ![p].daily = loc[p].usage]
    /\ pc' = [pc EXCEPT ![p] = "rec_get_hourly"]
    /\ hist' = [hist EXCEPT !.since = SinceAdd(@, {"daily"}, loc[p].cost)]
    /\ last' = NoLast
    /\ UNCHANGED <<now, redisUp, _cache_enabled, _request_times, _last_request_time,
                   actual>>

\* lines 197-203: GET hourly, increments.
RecGetHourly(p) ==
    /\ pc[p] = "rec_get_hourly"
    /\ loc' = [loc EXCEPT ![p].usage =
                  add_usage(_get_current_usage(store, p, "hourly"), "hourly",
                            loc[p].cost, loc[p].success)]
    /\ pc' = [pc EXCEPT ![p] = "rec_save_hourly"]
    /\ last' = NoLast
    /\ UNCHANGED <<now, store, redisUp, _cache_enabled, _request_times,
                   _last_request_time, actual, hist>>

\* lines 205-218: SETEX hourly, log, warnings, return.
RecSaveHourly(p) ==
    /\ pc[p] = "rec_save_hourly"
    /\ store' = _save_usage(store, p, loc[p].usage, "hourly", HOURLY_TTL)
    /\ last' = [NoLast EXCEPT !.op = "record", !.p = p, !.cost = loc[p].cost,
                              !.success = loc[p].success,
                              !.usage = [daily |-> loc[p].daily, hourly |-> loc[p].usage],
                              !.warn = _check_warning_thresholds(loc[p].daily, loc[p].usage)]
    /\ loc' = [loc EXCEPT ![p] = NoLoc]
    /\ pc' = [pc EXCEPT ![p] = "idle"]
    /\ hist' = [hist EXCEPT !.since = SinceAdd(@, {"hourly"}, loc[p].cost)]
    /\ UNCHANGED <<now, redisUp, _cache_enabled, _request_times, _last_request_time,
                   actual>>

\* check_quota_availability line 127, _reset_timeframe_if_needed line 106: GET daily.
ChkGetDaily(p, quota_cost) ==
    /\ pc[p] = "idle"
    /\ hist.checks < MaxChecks
    /\ loc' = [loc EXCEPT ![p] = [NoLoc EXCEPT !.op = "check", !.cost = quota_cost,
                                      !.usage = _get_current_usage(store, p, "daily")]]
    /\ pc' = [pc EXCEPT ![p] = "chk_reset_daily"]
    /\ hist' = [hist EXCEPT !.checks = @ + 1]
    /\ last' = NoLast
    /\ UNCHANGED <<now, store, redisUp, _cache_enabled, _request_times,
                   _last_request_time, actual>>

\* get_quota_status, line 243 (line 106): GET daily.  Its two
\* _reset_timeframe_if_needed calls then run as those of a check do.
StatGetDaily(p) ==
    /\ pc[p] = "idle"
    /\ hist.checks < MaxChecks
    /\ loc' = [loc EXCEPT ![p] = [NoLoc EXCEPT !.op = "status",
                                      !.usage = _get_current_usage(store, p, "daily")]]
    /\ pc' = [pc EXCEPT ![p] = "chk_reset_daily"]
    /\ hist' = [hist EXCEPT !.checks = @ + 1]
    /\ last' = NoLast
    /\ UNCHANGED <<now, store, redisUp, _cache_enabled, _request_times,
                   _last_request_time, actual>>

\* lines 108-121 for daily: the rollover test and, on rollover, SETEX daily.
ChkResetDaily(p) ==
    LET rollover == _should_reset_timeframe(loc[p].usage, "daily")
    IN  /\ pc[p] = "chk_reset_daily"
        /\ store' = IF rollover THEN _save_usage(store, p, QuotaUsage, "daily", DAILY_TTL)
                     ELSE store
        /\ loc' = [loc EXCEPT ![p].daily = IF rollover THEN QuotaUsage ELSE loc[p].usage,
                              ![p].reset = rollover]
        /\ pc' = [pc EXCEPT ![p] = "chk_get_hourly"]
        /\ hist' = [hist EXCEPT !.since = SinceReset(@, [daily |-> rollover,
                                                         hourly |-> FALSE])]
        /\ last' = NoLast
        /\ UNCHANGED <<now, redisUp, _cache_enabled, _request_times, _last_request_time,
                       actual>>

\* line 128, line 106: GET hourly.
ChkGetHourly(p) ==
    /\ pc[p] = "chk_get_hourly"
    /\ loc' = [loc EXCEPT ![p].usage = _get_current_usage(store, p, "hourly")]
    /\ pc' = [pc EXCEPT ![p] = "chk_reset_hourly"]
    /\ last' = NoLast
    /\ UNCHANGED <<now, store, redisUp, _cache_enabled, _request_times,
                   _last_request_time, actual, hist>>

\* lines 108-121 for hourly, then lines 130-153: the four comparisons of a
\* check, or lines 246-272: the pruning and the report of get_quota_status.
ChkResetHourly(p) ==
    LET rollover == _should_reset_timeframe(loc[p].usage, "hourly")
        hourly == IF rollover THEN QuotaUsage ELSE loc[p].usage
        pruned == Within(_request_times[p], MINUTE_HORIZON)
        recent_requests == Within(pruned, SECOND_HORIZON)
        reason == IF daily_limit_exceeded(loc[p].daily, loc[p].cost) THEN "daily"
                  ELSE IF hourly_limit_exceeded(hourly, loc[p].cost) THEN "hourly"
                  ELSE IF minute_limit_reached(pruned) THEN "minute"
                  ELSE IF burst_limit_reached(recent_requests) THEN "burst"
                  ELSE "OK"
    IN  /\ pc[p] = "chk_reset_hourly"
        /\ store' = IF rollover THEN _save_usage(store, p, QuotaUsage, "hourly", HOURLY_TTL)
                     ELSE store
        /\ _request_times' = [_request_times EXCEPT ![p] =
                                 IF loc[p].op = "check" /\ reason \in {"daily", "hourly"}
                                 THEN @ ELSE pruned]
        /\ last' = IF loc[p].op = "check"
                   THEN [NoLast EXCEPT !.op = "check", !.p = p, !.cost = loc[p].cost,
                                       !.allowed = (reason = "OK"), !.reason = reason,
                                       !.reset = [daily |-> loc[p].reset, hourly |-> rollover],
                                       !.usage = [daily |-> loc[p].daily, hourly |-> hourly]]
                   ELSE [NoLast EXCEPT !.op = "status", !.p = p,
                                       !.reset = [daily |-> loc[p].reset, hourly |-> rollover],
                                       !.usage = [daily |-> loc[p].daily, hourly |-> hourly],
                                       !.report = get_quota_status(loc[p].daily, hourly, pruned)]
        /\ loc' = [loc EXCEPT ![p] = NoLoc]
        /\ pc' = [pc EXCEPT ![p] = "idle"]
        /\ hist' = [hist EXCEPT !.since = SinceReset(@, [daily |-> FALSE,
                                                         hourly |-> rollover])]
        /\ UNCHANGED <<now, redisUp, _cache_enabled, _last_request_time, actual>>

\* Any number of processes, interleaved command by command, a store that
\* always answers, the clock moving in half hours.
NextSteps ==
    \/ \E p \in Procs, in \in RecordInputs : RecGetDaily(p, in.quota_type, in.success)
    \/ \E p \in Procs : RecSaveDaily(p)
    \/ \E p \in Procs : RecGetHourly(p)
    \/ \E p \in Procs : RecSaveHourly(p)
    \/ \E p \in Procs, c \in Costs : ChkGetDaily(p, c)
    \/ \E p \in Procs : StatGetDaily(p)
    \/ \E p \in Procs : ChkResetDaily(p)
    \/ \E p \in Procs : ChkGetHourly(p)
    \/ \E p \in Procs : ChkResetHourly(p)
    \/ (hist.ticks < MaxStepTicks /\ Tick(Seconds(1800)))

SpecSteps == Init /\ [][NextSteps]_vars

\* ================================================================= claims
\* What the store holds for a timeframe right now (0 when it holds nothing).
StoredUsage(timeframe) ==
    IF store[timeframe].kind = "none" \/ now >= store[timeframe].exp
    THEN [QuotaUsage EXCEPT !.last_reset_time = 0]
    ELSE store[timeframe].val
StoredUsed(timeframe) ==
    IF timeframe = "daily" THEN StoredUsage(timeframe).daily_quota_used
    ELSE StoredUsage(timeframe).hourly_quota_used

\* C1: in every reachable state and for every cost c, a check is denied
\* whenever the cost truly recorded so far in the current daily window plus c
\* exceeds DAILY_QUOTA_LIMIT.
C1_DeniesOverDailyLimit ==
    \A p \in SeqProcs, c \in Costs :
        (pc[p] = "idle" /\ ActualUsed("daily") + c > DAILY_QUOTA_LIMIT)
            => ~check_quota_availability(p, c).allowed

\* C1 with a store that has answered every command so far.
C1_DeniesOverDailyLimit_StoreUp ==
    \A p \in SeqProcs, c \in Costs :
        (pc[p] = "idle" /\ ~hist.everDown /\ ActualUsed("daily") + c > DAILY_QUOTA_LIMIT)
            => ~check_quota_availability(p, c).allowed

\* C2: a check is never denied when all four layers have headroom: the cost
\* recorded in the current daily window + c <= DAILY_QUOTA_LIMIT, the cost
\* recorded in the current hourly window + c <= HOURLY_QUOTA_LIMIT, fewer than
\* REQUESTS_PER_MINUTE calls recorded in the last 60 s and fewer than
\* REQUESTS_PER_SECOND in the last second; the boundary used + c = limit is
\* allowed and the warning thresholds play no part.
C2_NoDenialWithHeadroom ==
    \A p \in SeqProcs, c \in Costs :
        ( /\ pc[p] = "idle"
          /\ ActualUsed("daily") + c <= DAILY_QUOTA_LIMIT
          /\ ActualUsed("hourly") + c <= HOURLY_QUOTA_LIMIT
          /\ Count(Within(_request_times[p], MINUTE_HORIZON)) < REQUESTS_PER_MINUTE
          /\ Count(Within(_request_times[p], SECOND_HORIZON)) < REQUESTS_PER_SECOND )
        => check_quota_availability(p, c).allowed

\* C2 with the headroom measured on what the store holds instead of on what
\* was recorded in the current window.
C2_NoDenialWithHeadroom_Stored ==
    \A p \in SeqProcs, c \in Costs :
        ( /\ pc[p] = "idle"
          /\ StoredUsed("daily") + c <= DAILY_QUOTA_LIMIT
          /\ StoredUsed("hourly") + c <= HOURLY_QUOTA_LIMIT
          /\ Count(Within(_request_times[p], MINUTE_HORIZON)) < REQUESTS_PER_MINUTE
          /\ Count(Within(_request_times[p], SECOND_HORIZON)) < REQUESTS_PER_SECOND )
        => check_quota_availability(p, c).allowed

AllIdle == \A p \in Procs : pc[p] = "idle"
\* No boundary of the timeframe has passed since the processes started.
SameWindow(timeframe) == EpochBucket(timeframe, now) = EpochBucket(timeframe, StartTime)
Live(timeframe) == store[timeframe].kind = "json" /\ now < store[timeframe].exp

\* C3: for every sequence of record_request calls falling in one window, by
\* any number of concurrent callers under any interleaving, once the calls
\* have returned the stored used cost equals the sum of the recorded costs and
\* requests_made equals the number of calls.
C3_NoLostIncrement ==
    \A tf \in Timeframes :
        (AllIdle /\ SameWindow(tf))
            => /\ StoredUsed(tf) = actual[tf].used
               /\ StoredUsage(tf).requests_made = actual[tf].reqs

\* The step in which _reset_timeframe_if_needed, called by p, writes the fresh
\* window of a timeframe: a whole check or status handler, or the rollover
\* command of a check taken command by command.
RolloverBy(p, timeframe) ==
    \/ AllIdle /\ last'.op \in {"check", "status"} /\ last'.p = p /\ last'.reset[timeframe]
    \/ /\ timeframe = "daily"
       /\ pc[p] = "chk_reset_daily" /\ pc'[p] = "chk_get_hourly" /\ loc'[p].reset
    \/ /\ timeframe = "hourly"
       /\ pc[p] = "chk_reset_hourly" /\ pc'[p] = "idle" /\ last'.reset[timeframe]
RolloverStep(timeframe) == \E p \in Procs : RolloverBy(p, timeframe)
\* The window that call of _reset_timeframe_if_needed returns.
ReturnedBy(p, timeframe) ==
    IF pc'[p] = "chk_get_hourly" THEN loc'[p].daily ELSE last'.usage[timeframe]

\* C6: while a stored window lives, its used cost and requests_made never
\* decrease from one state to the next, whatever steps are interleaved; only
\* an explicit rollover reset takes them back to zero.
C6_CountersNeverDecrease ==
    [][\A tf \in Timeframes :
          (Live(tf) /\ Live(tf)' /\ ~RolloverStep(tf))
              => /\ StoredUsed(tf)' >= StoredUsed(tf)
                 /\ StoredUsage(tf)'.requests_made >= StoredUsage(tf).requests_made]_vars

LimitReasons == {"daily", "hourly", "minute", "burst"}

\* C4: whenever the store cannot be read (Redis unreachable, or the cache
\* switched off in this process), a check is denied with a reason that is not
\* one of the limit-exceeded reasons.
C4_FailsClosed ==
    \A p \in SeqProcs, c \in Costs :
        (pc[p] = "idle" /\ (~redisUp \/ ~_cache_enabled[p]))
            => /\ ~check_quota_availability(p, c).allowed
               /\ check_quota_availability(p, c).reason \notin LimitReasons

\* The window a rollover-checked read of a working store yields.
LedgerView(timeframe) ==
    IF Live(timeframe) /\ ~_should_reset_timeframe(store[timeframe].val, timeframe)
    THEN store[timeframe].val ELSE QuotaUsage
Counters(usage) ==
    <<usage.daily_quota_used, usage.hourly_quota_used, usage.requests_made,
      usage.errors_count>>

\* C5: once an outage is over (the store answers again), an admission check
\* works with the usage the store holds for the still-current window.
C5_ResumesAfterOutage ==
    \A p \in SeqProcs, c \in Costs, tf \in Timeframes :
        (pc[p] = "idle" /\ hist.everDown /\ redisUp)
            => Counters(check_quota_availability(p, c).usage[tf]) = Counters(LedgerView(tf))

Reads == {"check", "status"}

\* C7: when a rollover is detected, the window stored and returned has used
\* cost 0, requests_made 0, errors 0 and last_reset_time = now; and from then
\* on the stored record of that timeframe, which is what every later read
\* returns, never holds more cost than was written back after that rollover.
C7_RolloverDiscardsUsage ==
    [][\A tf \in Timeframes :
          /\ \A p \in Procs :
                RolloverBy(p, tf)
                    => /\ Live(tf)' /\ store'[tf].val = QuotaUsage'
                       /\ ReturnedBy(p, tf) = QuotaUsage'
          /\ (hist'.since[tf] >= 0 /\ Live(tf)')
                => /\ store'[tf].val.total_quota_used <= hist'.since[tf]
                   /\ StoredUsed(tf)' <= hist'.since[tf]]_vars

\* C8: a rollover-checked read that follows a rollover immediately (no clock
\* advance, no record in between) does no further reset, leaves the stored
\* record alone and returns the same zero-valued window.
C8_RolloverIdempotent ==
    [][\A tf \in Timeframes :
          (last.op \in Reads /\ last.reset[tf] /\ AllIdle /\ last'.op \in Reads)
              => /\ ~last'.reset[tf]
                 /\ last'.usage[tf] = last.usage[tf]
                 /\ store'[tf] = store[tf]]_vars

\* C8 witness: a read that found the zero-valued window a rollover had stored
\* at this very instant, and did not reset it again.
C8_Witness ==
    \E tf \in Timeframes :
        /\ last.op \in Reads /\ ~last.reset[tf]
        /\ Live(tf) /\ store[tf].val = QuotaUsage
        /\ last.usage[tf] = QuotaUsage

\* No timestamp was added to the tracker of process p by the step.
NoTimestampAdded(p) ==
    /\ DOMAIN _request_times'[p] \subseteq DOMAIN _request_times[p]
    /\ \A t \in DOMAIN _request_times'[p] : _request_times'[p][t] <= _request_times[p][t]

\* A step of check_quota_availability called by p: the whole handler, or one
\* of its commands.
ChkPcs == {"chk_reset_daily", "chk_get_hourly", "chk_reset_hourly"}
CheckStepBy(p) ==
    \/ AllIdle /\ last'.op = "check" /\ last'.p = p
    \/ /\ pc'[p] # pc[p] /\ (pc[p] \in ChkPcs \/ pc'[p] \in ChkPcs)
       /\ "check" \in {loc[p].op, loc'[p].op}

\* C9: an admission check, allowed or denied, leaves the counters of the
\* current daily and hourly windows as they were and adds no timestamp to the
\* burst tracker; a check repeated at the same instant returns the same
\* decision.
C9_CheckMutatesNothing ==
    [][\A p \in Procs :
          CheckStepBy(p)
              => /\ \A tf \in Timeframes :
                        Counters(LedgerView(tf))' = Counters(LedgerView(tf))
                 /\ NoTimestampAdded(p)
                 /\ _last_request_time' = _last_request_time
                 /\ (last.op = "check" /\ last'.op = "check" /\ last.p = p
                        /\ last.cost = last'.cost)
                       => (last'.allowed = last.allowed /\ last'.reason = last.reason)]_vars

\* C10: on an admission check, a stored window is reset whenever now lies in
\* another epoch bucket than its last_reset_time (floor(t/86400) for daily,
\* floor(t/3600) for hourly), however long the gap.
C10_RolloverByEpochBucket ==
    \A p \in SeqProcs, c \in Costs, tf \in Timeframes :
        ( /\ pc[p] = "idle" /\ Live(tf)
          /\ EpochBucket(tf, store[tf].val.last_reset_time) # EpochBucket(tf, now) )
        => check_quota_availability(p, c).reset[tf]

\* Timestamps process p has recorded less than `horizon` seconds ago.
RecordedWithin(p, horizon) == Count(Within(hist.stamps[p], horizon))

\* C11: when the daily, hourly and per-minute layers pass, a check is denied
\* for the burst limit exactly when at least REQUESTS_PER_SECOND timestamps
\* were recorded less than one second before it; otherwise it is allowed.
C11_BurstDenialExact ==
    (last.op = "check" /\ last.reason \notin {"daily", "hourly", "minute", "raised"})
        => /\ (last.reason = "burst") <=> (RecordedWithin(last.p, SECOND_HORIZON) >= REQUESTS_PER_SECOND)
           /\ last.allowed <=> (last.reason = "OK")
           /\ last.allowed <=> (RecordedWithin(last.p, SECOND_HORIZON) < REQUESTS_PER_SECOND)

\* Five calls recorded at one instant and a sixth check in that same second
\* is denied for the burst limit.
C11_Witness ==
    /\ last.op = "check" /\ last.reason = "burst"
    /\ now \in DOMAIN hist.stamps[last.p]
    /\ hist.stamps[last.p][now] = REQUESTS_PER_SECOND

\* The same check made a second or more after those five calls is allowed.
C11_AllowedLater ==
    /\ last.op = "check" /\ last.allowed
    /\ \E t \in DOMAIN hist.stamps[last.p] :
          hist.stamps[last.p][t] = REQUESTS_PER_SECOND /\ now - t >= Seconds(SECOND_HORIZON)

\* C12: after every check, whatever its outcome, the burst tracker of the
\* checking process holds no timestamp that is a minute old or older.
C12_TrackerPrunedAfterCheck ==
    last.op = "check"
        => \A t \in DOMAIN _request_times[last.p] : now - t < Seconds(MINUTE_HORIZON)

\* The used cost of a usage record in its own timeframe.
UsedIn(usage, timeframe) ==
    IF timeframe = "daily" THEN usage.daily_quota_used ELSE usage.hourly_quota_used
WarningThreshold(timeframe) ==
    IF timeframe = "daily" THEN DAILY_WARNING_THRESHOLD ELSE HOURLY_WARNING_THRESHOLD
HardLimit(timeframe) ==
    IF timeframe = "daily" THEN DAILY_QUOTA_LIMIT ELSE HOURLY_QUOTA_LIMIT

\* C13: after record_request a warning is emitted for a timeframe exactly when
\* the usage u the call has just written for it satisfies
\* warning threshold <= u < hard limit.
C13_WarningBand ==
    (last.op = "record" /\ last.reason # "raised")
        => \A tf \in Timeframes :
              last.warn[tf] <=> /\ WarningThreshold(tf) <= UsedIn(last.usage[tf], tf)
                                /\ UsedIn(last.usage[tf], tf) < HardLimit(tf)

\* C13 with u read back from the store after the call.
C13_WarningBand_Stored ==
    last.op = "record"
        => \A tf \in Timeframes :
              last.warn[tf] <=> /\ WarningThreshold(tf) <= StoredUsed(tf)
                                /\ StoredUsed(tf) < HardLimit(tf)

\* A record that brings both usages into their warning bands: both warnings.
C13_Witness ==
    /\ last.op = "record"
    /\ last.warn.hourly /\ last.warn.daily
    /\ UsedIn(last.usage.daily, "daily") \in DAILY_WARNING_THRESHOLD .. DAILY_QUOTA_LIMIT - 1
    /\ UsedIn(last.usage.hourly, "hourly") \in HOURLY_WARNING_THRESHOLD .. HOURLY_QUOTA_LIMIT - 1

\* A record that lands on both hard limits: no warning.
C13_AtLimit ==
    /\ last.op = "record"
    /\ ~last.warn.hourly /\ ~last.warn.daily
    /\ UsedIn(last.usage.daily, "daily") = DAILY_QUOTA_LIMIT
    /\ UsedIn(last.usage.hourly, "hourly") = HOURLY_QUOTA_LIMIT

C15_RecordedUsageSeen ==
    (last.op = "check" /\ AllIdle)
        => \A tf \in Timeframes : UsedIn(last.usage[tf], tf) >= ActualUsed(tf)

\* The stored record never expires before the end of the window in which it
\* was last written.
C15_TtlCoversWindow ==
    \A tf \in Timeframes :
        (store[tf].kind = "json" /\ ~hist.everDown)
            => EpochBucket(tf, store[tf].exp) > EpochBucket(tf, store[tf].exp - Seconds(ResetTtl(tf)))

\* C16: the client sends a request to the API only inside a call that asked
\* wait_if_needed first and was allowed, on every path; after a denial it
\* sends nothing.
C16_AsksBeforeEverySend ==
    hist.call.sent > 0 => (hist.call.asked /\ hist.call.allowed)

\* C17: once a call that was admitted and has sent its request returns,
\* whether the request succeeded or failed, it has called record_request
\* exactly once.
C17_RecordsEveryAttempt ==
    \A p \in SeqProcs :
        (pc[p] = "idle" /\ hist.call.asked /\ hist.call.allowed /\ hist.call.sent > 0)
            => hist.call.recorded = 1

\* A call that was denied admission returned without sending anything.
C16_DeniedSendsNothing ==
    (hist.call.asked /\ ~hist.call.allowed) => hist.call.sent = 0

\* The sixth admitted-and-failed call in one second is denied for the burst
\* limit.
C16_DenialReached ==
    hist.call.outcome = "denied" /\ last.op = "wait" /\ last.reason = "burst"

\* A step of get_quota_status called by p: the whole handler, or one of its
\* commands.
StatusStepBy(p) ==
    \/ AllIdle /\ last'.op = "status" /\ last'.p = p
    \/ /\ pc'[p] # pc[p] /\ (pc[p] \in ChkPcs \/ pc'[p] \in ChkPcs)
       /\ "status" \in {loc[p].op, loc'[p].op}

\* C18: get_quota_status is read-only: it leaves the counters of the current
\* daily and hourly windows as they were, adds no timestamp, and changes no
\* admission decision; it reports the rollover-checked used, requests and
\* errors values a check at that instant works with, remaining = limit - used,
\* and as burst counts the number of timestamps recorded less than 60 s and
\* less than 1 s ago.
C18_StatusReadOnly ==
    [][\A p \in Procs :
          /\ StatusStepBy(p)
                => /\ \A tf \in Timeframes :
                          Counters(LedgerView(tf))' = Counters(LedgerView(tf))
                   /\ NoTimestampAdded(p)
                   /\ _last_request_time' = _last_request_time
          /\ (AllIdle /\ AllIdle' /\ last'.op = "status" /\ last'.p = p)
                => /\ \A c \in Costs :
                          /\ check_quota_availability(p, c).allowed' =
                                check_quota_availability(p, c).allowed
                          /\ check_quota_availability(p, c).reason' =
                                check_quota_availability(p, c).reason
                   /\ \A tf \in Timeframes, c \in Costs :
                          LET u == check_quota_availability(p, c).usage[tf]
                          IN  /\ last'.report[tf].used = UsedIn(u, tf)
                              /\ last'.report[tf].requests_made = u.requests_made
                              /\ last'.report[tf].errors = u.errors_count
                              /\ last'.report[tf].remaining = HardLimit(tf) - UsedIn(u, tf)
                   /\ last'.report.rate_limiting.requests_last_minute =
                         RecordedWithin(p, MINUTE_HORIZON)
                   /\ last'.report.rate_limiting.requests_last_second =
                         RecordedWithin(p, SECOND_HORIZON)]_vars

\* The value stored under a timeframe's key is one no _save_usage wrote.
Malformed(timeframe) == store[timeframe].kind = "raw" /\ now < store[timeframe].exp

\* C19: whatever the store holds, a well-formed record or a malformed one
\* (invalid JSON, missing or unknown fields, an unparsable last_reset_time),
\* an admission check returns its outcome and never raises; for a malformed
\* record it works with a fresh zero window.
C19_CheckNeverRaises ==
    \A p \in SeqProcs, c \in Costs :
        pc[p] = "idle"
            => LET r == check_quota_availability(p, c)
               IN  /\ r.reason # "raised"
                   /\ \A tf \in Timeframes :
                         Malformed(tf) => Counters(r.usage[tf]) = Counters(QuotaUsage)

\* C19 for the two malformed forms the code copes with: text that is not
\* JSON, and a dict with missing keys.
C19_CheckNeverRaises_Decodable ==
    \A p \in SeqProcs, c \in Costs :
        (/\ pc[p] = "idle"
         /\ \A tf \in Timeframes :
               Malformed(tf) => store[tf].form \in {"invalid_json", "missing_fields"})
            => LET r == check_quota_availability(p, c)
               IN  /\ r.reason # "raised"
                   /\ \A tf \in Timeframes :
                         Malformed(tf) => Counters(r.usage[tf]) = Counters(QuotaUsage)

\* The four layers of the check that `last` reports, each computed from the
\* usage the check worked with and the timestamps recorded so far.
LayerFails(layer) ==
    IF layer = "daily"
    THEN UsedIn(last.usage.daily, "daily") + last.cost > DAILY_QUOTA_LIMIT
    ELSE IF layer = "hourly"
    THEN UsedIn(last.usage.hourly, "hourly") + last.cost > HOURLY_QUOTA_LIMIT
    ELSE IF layer = "minute"
    THEN RecordedWithin(last.p, MINUTE_HORIZON) >= REQUESTS_PER_MINUTE
    ELSE RecordedWithin(last.p, SECOND_HORIZON) >= REQUESTS_PER_SECOND

\* C20: the reason a check returns is that of the first failing layer in the
\* order daily, hourly, per-minute, per-second; a layer's reason is returned
\* only if every earlier layer passes, and "OK" only if all four pass.
C20_FirstFailureWins ==
    (last.op = "check" /\ last.reason # "raised")
        => last.reason =
              (IF LayerFails("daily") THEN "daily"
               ELSE IF LayerFails("hourly") THEN "hourly"
               ELSE IF LayerFails("minute") THEN "minute"
               ELSE IF LayerFails("burst") THEN "burst"
               ELSE "OK")

\* A check that exceeds the daily and the hourly budget, with the burst limit
\* reached as well, is denied with the daily reason.
C20_Witness ==
    /\ last.op = "check" /\ last.reason = "daily"
    /\ LayerFails("daily") /\ LayerFails("hourly") /\ LayerFails("burst")

\* Over the hourly budget only among the budgets: the hourly reason.
C20_HourlyOnly ==
    /\ last.op = "check" /\ last.reason = "hourly"
    /\ ~LayerFails("daily") /\ LayerFails("hourly")

\* The per-minute count reached together with the per-second count: the
\* per-minute reason.
C20_MinuteBeforeBurst ==
    /\ last.op = "check" /\ last.reason = "minute"
    /\ LayerFails("minute") /\ LayerFails("burst")

\* C21: a call recorded after a day or hour boundary is counted in the new
\* window: right after record_request returns, the rollover-checked window an
\* admission check would read holds at least the cost just recorded, for
\* both timeframes.
C21_RecordCountsInCurrentWindow ==
    (last.op = "record" /\ last.reason # "raised")
        => \A tf \in Timeframes : UsedIn(LedgerView(tf), tf) >= last.cost

\* The stored record of a timeframe was started in the window that contains
\* now: same calendar day for daily, same hour for hourly.
InCurrentWindow(timeframe) ==
    /\ Live(timeframe)
    /\ EpochBucket(timeframe, store[timeframe].val.last_reset_time) =
          EpochBucket(timeframe, now)

\* C22: no false reset: when a rollover-checked read finds a stored record
\* whose last_reset_time is in the same window as now (same calendar day for
\* daily, same hour for hourly), _reset_timeframe_if_needed writes nothing
\* and returns the stored window, counters and last_reset_time as stored.
C22_NoFalseReset ==
    [][\A tf \in Timeframes :
          (InCurrentWindow(tf) /\ AllIdle /\ AllIdle' /\ redisUp
             /\ last'.op \in Reads /\ last'.reason # "raised" /\ _cache_enabled[last'.p])
              => /\ ~last'.reset[tf]
                 /\ last'.usage[tf] = store[tf].val
                 /\ store'[tf] = store[tf]]_vars

\* A read that found the hour's record with usage in it and returned it.
C22_Witness ==
    /\ last.op \in Reads /\ ~last.reset.hourly
    /\ InCurrentWindow("hourly")
    /\ last.usage.hourly = store.hourly.val
    /\ store.hourly.val.hourly_quota_used > 0
    /\ store.hourly.val.last_reset_time < now - Seconds(1800)

\* C22 against the store of the moment of the write, for any interleaving
\* and any store: no reset is written over a record of the current window,
\* and a read returns that record.
C22_NoFalseReset_AnyInterleaving ==
    [][\A tf \in Timeframes :
          InCurrentWindow(tf)
              => /\ \A p \in Procs : ~RolloverBy(p, tf)
                 /\ (AllIdle /\ AllIdle' /\ last'.op \in Reads /\ last'.reason # "raised")
                        => /\ last'.usage[tf] = store[tf].val
                           /\ store'[tf] = store[tf]]_vars

\* Process q has completed a record_request that it made in the window that
\* contains now.
RecordedInCurrentWindow(q, timeframe) ==
    /\ pc[q] = "idle" /\ _last_request_time[q] > 0
    /\ EpochBucket(timeframe, _last_request_time[q]) = EpochBucket(timeframe, now)

\* C23: under any interleaving of the callers, a rollover reset never erases
\* usage recorded in the new window: once a record_request made after the
\* boundary has completed and the stored record is of the window that
\* contains now, a fresh window written by _reset_timeframe_if_needed
\* replaces no usage, so later reads of that window still show the cost.
C23_ResetKeepsNewWindowUsage ==
    [][\A tf \in Timeframes, p \in Procs :
          (/\ RolloverBy(p, tf) /\ InCurrentWindow(tf)
           /\ \E q \in Procs : RecordedInCurrentWindow(q, tf))
              => /\ UsedIn(store[tf].val, tf) = 0
                 /\ UsedIn(LedgerView(tf), tf)' >= UsedIn(LedgerView(tf), tf)]_vars

\* C23 for callers that run one after the other and never record across a
\* boundary without a check: no handler is in flight.
C23_ResetKeepsNewWindowUsage_Sequential ==
    [][\A tf \in Timeframes, p \in Procs :
          (AllIdle /\ RolloverBy(p, tf) /\ InCurrentWindow(tf))
              => UsedIn(store[tf].val, tf) = 0]_vars

\* ------------------------------------------- callers that ask, then record
\* Admissions asked by all callers of the protocol specifications.
MaxAdmissions == 3

\* await check_quota_availability(quota_type.value) by a caller that goes on
\* to its API call only when the answer is True.
AdmitByCheck(p, quota_type) ==
    LET r == check_quota_availability(p, quota_type.value)
    IN  /\ pc[p] = "idle"
        /\ store' = r.store
        /\ _request_times' = [_request_times EXCEPT ![p] = r.times]
        /\ pc' = [pc EXCEPT ![p] = IF r.allowed THEN "admitted" ELSE "idle"]
        /\ loc' = [loc EXCEPT ![p] = IF r.allowed
                                     THEN [NoLoc EXCEPT !.op = "admitted",
                                                        !.cost = quota_type.value]
                                     ELSE NoLoc]
        /\ last' = [NoLast EXCEPT !.op = "check", !.p = p, !.cost = quota_type.value,
                                  !.allowed = r.allowed, !.reason = r.reason,
                                  !.reset = r.reset, !.usage = r.usage]
        /\ hist' = [hist EXCEPT !.since = SinceReset(@, r.reset), !.checks = @ + 1]
        /\ UNCHANGED <<now, redisUp, _cache_enabled, _last_request_time, actual>>

\* await wait_if_needed(quota_type) (lines 274-298): the check and, when it
\* allows, get_required_delay and the sleep of that delay.
wait_if_needed(p, quota_type) ==
    LET r == check_quota_availability(p, quota_type.value)
        g == get_required_delay(p, r.times)
    IN  /\ pc[p] = "idle"
        /\ store' = r.store
        /\ _request_times' = [_request_times EXCEPT ![p] = IF r.allowed THEN g.times
                                                           ELSE r.times]
        /\ now' = IF r.allowed THEN now + g.delay ELSE now
        /\ pc' = [pc EXCEPT ![p] = IF r.allowed THEN "admitted" ELSE "idle"]
        /\ loc' = [loc EXCEPT ![p] = IF r.allowed
                                     THEN [NoLoc EXCEPT !.op = "admitted",
                                                        !.cost = quota_type.value]
                                     ELSE NoLoc]
        /\ last' = [NoLast EXCEPT !.op = "wait", !.p = p, !.cost = quota_type.value,
                                  !.allowed = r.allowed, !.reason = r.reason,
                                  !.reset = r.reset, !.usage = r.usage]
        /\ hist' = [hist EXCEPT !.since = SinceReset(@, r.reset), !.checks = @ + 1]
        /\ UNCHANGED <<redisUp, _cache_enabled, _last_request_time, actual>>

\* await record_request(quota_type, success) by a caller whose own admission
\* for that quota_type was granted and who has not recorded since.
RecordAdmitted(p, success) ==
    LET r == record_request(store, p, loc[p].cost, success)
    IN  /\ pc[p] = "admitted"
        /\ _request_times' = [_request_times EXCEPT ![p] = Append_(@, now, 1)]
        /\ _last_request_time' = [_last_request_time EXCEPT ![p] = now]
        /\ store' = r.store
        /\ actual' = [tf \in Timeframes |-> ActualAdd(actual[tf], tf, loc[p].cost, success)]
        /\ hist' = [hist EXCEPT !.records = @ + 1,
                                !.since = SinceAdd(@, Timeframes, loc[p].cost),
                                !.stamps[p] = Append_(@, now, 1)]
        /\ last' = [NoLast EXCEPT !.op = "record", !.p = p, !.cost = loc[p].cost,
                                  !.success = success, !.usage = r.usage,
                                  !.warn = _check_warning_thresholds(r.usage.daily,
                                                                     r.usage.hourly)]
        /\ pc' = [pc EXCEPT ![p] = "idle"]
        /\ loc' = [loc EXCEPT ![p] = NoLoc]
        /\ UNCHANGED <<now, redisUp, _cache_enabled>>

\* Any number of processes, each one asking before every call it records; the
\* sleep, the API call and other processes' handlers may lie between the
\* admission and the record.
NextProtocol ==
    \/ \E p \in Procs, q \in QuotaType :
          hist.checks < MaxAdmissions /\ AdmitByCheck(p, q)
    \/ \E p \in Procs, q \in QuotaType :
          hist.checks < MaxAdmissions /\ wait_if_needed(p, q)
    \/ \E p \in Procs, success \in BOOLEAN : RecordAdmitted(p, success)
    \/ (hist.ticks < MaxStepTicks /\ Tick(Seconds(1800)))

SpecProtocol == Init /\ [][NextProtocol]_vars

\* One caller that asks before every call it records.
NextProtocolSeq ==
    \/ \E p \in SeqProcs, q \in QuotaType :
          hist.checks < MaxAdmissions /\ AdmitByCheck(p, q)
    \/ \E p \in SeqProcs, q \in QuotaType :
          hist.checks < MaxAdmissions /\ wait_if_needed(p, q)
    \/ \E p \in SeqProcs, success \in BOOLEAN : RecordAdmitted(p, success)
    \/ \E d \in Deltas : hist.ticks < MaxStepTicks /\ Tick(d)

SpecProtocolSeq == Init /\ [][NextProtocolSeq]_vars

\* C24: with any number of concurrent callers that each record a call only
\* after their own allowed check, the cost recorded in the current daily
\* window never exceeds DAILY_QUOTA_LIMIT and the cost recorded in the current
\* hourly window never exceeds HOURLY_QUOTA_LIMIT.
C24_ConcurrentCallersWithinLimits ==
    /\ UsedIn(LedgerView("daily"), "daily") <= DAILY_QUOTA_LIMIT
    /\ UsedIn(LedgerView("hourly"), "hourly") <= HOURLY_QUOTA_LIMIT

\* ------------------------------------------------ a caller that only asks
\* Clock advances of less than a window allowed in the quiet specification.
MaxQuietTicks == 2
\* Half a second, one minute, half an hour.
QuietDeltas == BurstDeltas \cup {Seconds(1800)}
\* The clock goes on into the next day: from 22:45 to 00:45.
NextDay ==
    /\ now < StartTime + 2 * HOUR
    /\ Tick(2 * HOUR)

\* Usage and timestamps near the limits were recorded; from now on the caller
\* only asks for admission while the clock advances.
NextQuiet ==
    \/ \E p \in SeqProcs, c \in Costs : Check(p, c)
    \/ \E d \in QuietDeltas : hist.ticks < MaxQuietTicks /\ Tick(d)
    \/ NextDay

\* Time keeps advancing: the clock is not held back before the next window.
SpecQuiet == InitLayers /\ [][NextQuiet]_vars /\ WF_vars(NextDay)

\* A check for cost c asked now by process p would be denied.
Denied(p, c) == pc[p] = "idle" /\ ~check_quota_availability(p, c).allowed

\* C25: no starvation: from any state in which a check for cost c is denied,
\* if no further call is recorded and time keeps advancing, a check for that
\* cost is eventually allowed.
C25_NoStarvation ==
    \A c \in Costs : \A p \in SeqProcs : Denied(p, c) ~> ~Denied(p, c)

\* The daily budget was used up, and a check for 100 units is allowed again.
C25_Witness ==
    /\ actual.daily.used = DAILY_QUOTA_LIMIT
    /\ last.op = "check" /\ last.cost = CHANNEL_SEARCH /\ last.allowed
    /\ last.reset.daily

\* Each of the four layers denies a check in some state of the quiet
\* specification.
C25_NeverDeniedDaily == ~(last.op = "check" /\ last.reason = "daily")
C25_NeverDeniedHourly == ~(last.op = "check" /\ last.reason = "hourly")
C25_NeverDeniedMinute == ~(last.op = "check" /\ last.reason = "minute")
C25_NeverDeniedBurst == ~(last.op = "check" /\ last.reason = "burst")

\* --------------------------------------------------- get_required_delay
\* Clock advances of the delay specification.
MaxDelayTicks == 3
\* A tenth of a second, half a second, one minute.
DelayDeltas == {MinDelay \div 2} \cup BurstDeltas
\* Trackers around the two density tiers (60% and 80% of REQUESTS_PER_MINUTE):
\* k VIDEO_STATS calls recorded by process 1 at StartTime.
DelayPriors ==
    { LayerPrior(0, k, 0) :
        k \in {1, (REQUESTS_PER_MINUTE * 6) \div 10, (REQUESTS_PER_MINUTE * 6) \div 10 + 1,
               (REQUESTS_PER_MINUTE * 8) \div 10, (REQUESTS_PER_MINUTE * 8) \div 10 + 1} }

InitDelay ==
    /\ now = StartTime
    /\ \E prior \in DelayPriors :
          /\ store = prior.store
          /\ actual = prior.actual
          /\ _request_times = [p \in Procs |-> IF p = 1 THEN prior.times ELSE EmptyTimes]
          /\ hist = [ticks |-> 0, records |-> 0, checks |-> 0, everDown |-> FALSE,
                     since |-> [tf \in Timeframes |-> -1],
                     stamps |-> [p \in Procs |-> IF p = 1 THEN prior.times ELSE EmptyTimes],
                     restarts |-> 0, calls |-> 0, call |-> NoCall, corrupts |-> 0]
    /\ redisUp = TRUE
    /\ _cache_enabled = [p \in Procs |-> TRUE]
    /\ _last_request_time = [p \in Procs |-> IF p = 1 THEN StartTime ELSE 0]
    /\ pc = [p \in Procs |-> "idle"]
    /\ loc = [p \in Procs |-> NoLoc]
    /\ last = NoLast

\* await quota_manager.get_required_delay(): the delay it returns and the
\* number of timestamps it then holds are kept in last.report.
RequiredDelay(p) ==
    LET g == get_required_delay(p, _request_times[p])
    IN  /\ pc[p] = "idle"
        /\ _request_times' = [_request_times EXCEPT ![p] = g.times]
        /\ last' = [NoLast EXCEPT !.op = "delay", !.p = p,
                                  !.report = [delay |-> g.delay, n |-> Count(g.times)]]
        /\ UNCHANGED <<now, store, redisUp, _cache_enabled, _last_request_time, pc, loc,
                       actual, hist>>

\* One caller: delays asked for, checks, admitted VIDEO_STATS calls recorded.
NextDelay ==
    \/ \E p \in SeqProcs : RequiredDelay(p)
    \/ \E p \in SeqProcs, c \in Costs : Check(p, c)
    \/ \E p \in SeqProcs, q \in {t \in QuotaType : t.value = VIDEO_STATS} :
          hist.checks < MaxAdmissions /\ AdmitByCheck(p, q)
    \/ \E p \in SeqProcs : RecordAdmitted(p, FALSE)
    \/ \E d \in DelayDeltas : hist.ticks < MaxDelayTicks /\ Tick(d)

SpecDelay == InitDelay /\ [][NextDelay]_vars

\* The time of the most recent record_request of process p (0.0 before the
\* first one), read off the history of its recorded calls.
LastRecorded(p) ==
    IF DOMAIN hist.stamps[p] = {} THEN 0
    ELSE CHOOSE t \in DOMAIN hist.stamps[p] : \A u \in DOMAIN hist.stamps[p] : u <= t
\* Calls process p recorded in the last 60 seconds.
RecordedLastMinute(p) == RecordedWithin(p, MINUTE_HORIZON)

\* C26: get_required_delay measures the elapsed time from the most recent
\* recorded call, which only record_request sets; when less than 200 ms have
\* elapsed it returns exactly 200 ms - elapsed, which is > 0 and <= 200 ms,
\* however many calls were recorded in the last minute.
C26_MinimumSpacing ==
    /\ \A p \in Procs : _last_request_time[p] = LastRecorded(p)
    /\ (last.op = "delay" /\ now - LastRecorded(last.p) < MinDelay)
           => /\ last.report.delay = MinDelay - (now - LastRecorded(last.p))
              /\ last.report.delay > 0
              /\ last.report.delay <= MinDelay

\* A delay asked 100 ms after a recorded call, with more than 80% of
\* REQUESTS_PER_MINUTE calls in the last minute: 100 ms.
C26_Witness ==
    /\ last.op = "delay"
    /\ now - LastRecorded(last.p) = MinDelay \div 2
    /\ last.report.delay = MinDelay \div 2
    /\ RecordedLastMinute(last.p) * 10 > REQUESTS_PER_MINUTE * 8

\* The delay the density tiers give for n calls in the last minute.
DensityDelay(n) ==
    IF n * 10 > REQUESTS_PER_MINUTE * 8 THEN Seconds(1)
    ELSE IF n * 10 > REQUESTS_PER_MINUTE * 6 THEN Seconds(1) \div 2
    ELSE 0

\* C27: when at least 200 ms have elapsed since the last recorded call,
\* get_required_delay returns 1 s if the number n of calls recorded in the
\* last 60 s exceeds 80% of REQUESTS_PER_MINUTE, otherwise 500 ms if n exceeds
\* 60%, otherwise 0; the delay does not decrease as n grows.
C27_DensityTiers ==
    /\ (last.op = "delay" /\ now - LastRecorded(last.p) >= MinDelay)
           => /\ last.report.delay = DensityDelay(RecordedLastMinute(last.p))
              /\ last.report.n = RecordedLastMinute(last.p)
    /\ last.op = "delay"
           => \A n \in 0 .. REQUESTS_PER_MINUTE : DensityDelay(n) <= DensityDelay(n + 1)

\* Exactly 80% of REQUESTS_PER_MINUTE in the last minute: the 500 ms tier.
C27_Witness ==
    /\ last.op = "delay" /\ now - LastRecorded(last.p) >= MinDelay
    /\ RecordedLastMinute(last.p) * 10 = REQUESTS_PER_MINUTE * 8
    /\ last.report.delay = Seconds(1) \div 2
\* One more than 80%: one second.
C27_AboveEighty ==
    /\ last.op = "delay" /\ now - LastRecorded(last.p) >= MinDelay
    /\ RecordedLastMinute(last.p) = (REQUESTS_PER_MINUTE * 8) \div 10 + 1
    /\ last.report.delay = Seconds(1)
\* Exactly 60%: no delay.
C27_AtSixty ==
    /\ last.op = "delay" /\ now - LastRecorded(last.p) >= MinDelay
    /\ RecordedLastMinute(last.p) * 10 = REQUESTS_PER_MINUTE * 6
    /\ last.report.delay = 0

\* ------------------------------------------------- a fleet of processes
\* Admissions asked by the whole fleet, and its clock advances.
MaxFleetAdmissions == 7
MaxFleetTicks == 1

\* NumProcs processes, each with its own burst tracker, each asking before
\* every VIDEO_STATS call it records; the clock moves in half seconds.
NextFleet ==
    \/ \E p \in Procs, q \in {t \in QuotaType : t.value = VIDEO_STATS} :
          hist.checks < MaxFleetAdmissions /\ AdmitByCheck(p, q)
    \/ \E p \in Procs : RecordAdmitted(p, FALSE)
    \/ (hist.ticks < MaxFleetTicks /\ Tick(Seconds(SECOND_HORIZON) \div 2))

\* The fleet starts on a store that holds no quota key.
InitFleet == Init /\ \A tf \in Timeframes : store[tf] = NoKey

SpecFleet == InitFleet /\ [][NextFleet]_vars

\* Calls process p recorded in the second that begins at t.
RecordedInSecondFrom(p, t) ==
    LET stamps == hist.stamps[p]
        inside == {u \in DOMAIN stamps : t <= u /\ u < t + Seconds(SECOND_HORIZON)}
    IN  Count([u \in inside |-> stamps[u]])
\* The instants at which some process recorded a call.
RecordInstants == UNION {DOMAIN hist.stamps[p] : p \in Procs}
RECURSIVE FleetRecordedFrom(_, _)
FleetRecordedFrom(procs, t) ==
    IF procs = {} THEN 0
    ELSE LET p == CHOOSE q \in procs : TRUE
         IN  RecordedInSecondFrom(p, t) + FleetRecordedFrom(procs \ {p}, t)

\* C28: with N processes, each with its own tracker and each checking before
\* every call it records, one after the other, every process records at
\* most REQUESTS_PER_SECOND calls in any one-second interval, and the fleet
\* at most N * REQUESTS_PER_SECOND.
C28_PerProcessBurstBound ==
    \A t \in RecordInstants :
        /\ \A p \in Procs : RecordedInSecondFrom(p, t) <= REQUESTS_PER_SECOND
        /\ FleetRecordedFrom(Procs, t) <= NumProcs * REQUESTS_PER_SECOND

\* A process that has recorded REQUESTS_PER_SECOND calls within the last
\* second, some of them half a second ago, is denied the next one.
C28_Witness ==
    /\ last.op = "check" /\ last.reason = "burst"
    /\ RecordedWithin(last.p, SECOND_HORIZON) = REQUESTS_PER_SECOND
    /\ \E t \in DOMAIN hist.stamps[last.p] : t < now

\* The fleet has recorded more than REQUESTS_PER_SECOND calls in one second.
C28_FleetExceedsOneProcess ==
    \E t \in RecordInstants : FleetRecordedFrom(Procs, t) > REQUESTS_PER_SECOND

\* C29: with one sequential caller and a store that answers, where every
\* record_request(c) follows that caller's own allowed check for c with no
\* other record in between, the stored daily record never holds more than
\* DAILY_QUOTA_LIMIT and the stored hourly record never more than
\* HOURLY_QUOTA_LIMIT, also when a window boundary or a key expiry lies
\* between the check and the record.
C29_SequentialCallerWithinLimits ==
    \A tf \in Timeframes :
        store[tf].kind = "json" => UsedIn(store[tf].val, tf) <= HardLimit(tf)

\* The hour changed between the check and the record: the record brought
\* the hourly record of the hour before to exactly HOURLY_QUOTA_LIMIT.
C29_Witness ==
    /\ last.op = "record"
    /\ Live("hourly") /\ ~InCurrentWindow("hourly")
    /\ store.hourly.val.hourly_quota_used = HOURLY_QUOTA_LIMIT

\* The clock passes the hour boundary: from 22:45 to 23:15.
NextHour ==
    /\ now < StartTime + Seconds(1800)
    /\ Tick(Seconds(1800))

\* Two of the processes, interleaved command by command.
Pair == {p \in Procs : p <= 2}
NextPair ==
    \/ \E p \in Pair, in \in RecordInputs : RecGetDaily(p, in.quota_type, in.success)
    \/ \E p \in Pair : RecSaveDaily(p)
    \/ \E p \in Pair : RecGetHourly(p)
    \/ \E p \in Pair : RecSaveHourly(p)
    \/ \E p \in Pair : ChkGetDaily(p, VIDEO_STATS)
    \/ \E p \in Pair : ChkResetDaily(p)
    \/ \E p \in Pair : ChkGetHourly(p)
    \/ \E p \in Pair : ChkResetHourly(p)
    \/ NextHour

SpecPair == Init /\ [][NextPair]_vars

\* C30: in every reachable state, each of the two stored records has
\* errors_count <= requests_made, whatever record, check, rollover and
\* key-expiry steps were taken and however they were interleaved.
C30_ErrorsWithinRequests ==
    \A tf \in Timeframes :
        store[tf].kind = "json"
            => /\ store[tf].val.errors_count <= store[tf].val.requests_made
               /\ store[tf].val.errors_count >= 0

\* Two calls were recorded, the commands of other handlers in between, and
\* the hourly record holds one call, a failed one.
C30_Witness ==
    /\ AllIdle /\ hist.records >= 2
    /\ Live("hourly")
    /\ store.hourly.val.errors_count = 1
    /\ store.hourly.val.requests_made = 1

====
